---------------------------- MODULE Spec2Model ----------------------------
(***************************************************************************)
(* A model of the athenic demodulator: the CV demodulator                  *)
(* (src/src/demodulator.rs), the attack/release envelope                   *)
(* (src/src/envelope.rs), the oscillator bank (src/src/additive_engine.rs),*)
(* the voice (src/src/voice.rs) and the plugin's render loop               *)
(* (src/src/lib.rs).                                                       *)
(*                                                                         *)
(* Numbers.  The f32/f64 values of the program are modelled in fixed       *)
(* point: the integer x stands for the real x / ONE.  Products and         *)
(* quotients round toward zero.  The per-harmonic tables of the program    *)
(* have MAX_HARMONICS = 512 entries, the analysis block has                *)
(* DEMOD_BLOCK_SIZE = 1050 samples, the voice renders in sub-blocks of     *)
(* VOICE_BLOCK_SIZE = 32 samples and the plugin keeps 4096 envelope        *)
(* values; the model keeps the code's arithmetic on them and scales the    *)
(* four sizes down, so they are bounds of the model.  Harmonic h of the    *)
(* model (1-based) is entry h - 1 of the program's arrays.                 *)
(*                                                                         *)
(* Logs.  An operation returns, besides what the code returns, a log of    *)
(* what it did sample by sample (the gated samples, the snapshots, the     *)
(* slewed amplitudes, the envelope values, the samples added); the         *)
(* properties at the end of the module are stated over these logs.         *)
(***************************************************************************)
EXTENDS Integers, Sequences, FiniteSets, TLC

\* ------------------------------------------------------------------ bounds
\* units of the fixed-point representation per 1.0
ONE == 1000
\* additive_engine.rs:3 has 512
MAX_HARMONICS == 4
\* demodulator.rs:1 has 1050
DEMOD_BLOCK_SIZE == 9
\* voice.rs:8 has 32
VOICE_BLOCK_SIZE == 4
\* lib.rs:100 has 4096
ENVELOPE_VALUES == 10
\* the number of demodulator operations of one behaviour
MaxDemodCalls == 2
\* the number of voice operations of one behaviour
MaxVoiceOps == 5
\* the number of plugin operations of one behaviour
MaxPluginCalls == 3

VARIABLES
    driving,    \* the component the behaviour drives: "demod", "voice" or "plugin"
    demod,      \* the CVDemodulator
    d_params,   \* the parameter snapshot of the behaviour (floor, ceiling, bias,
                \* distribution mode, harmonic count and offset)
    d_call,     \* the last demodulator operation and its arguments
    d_ret,      \* what that operation returned
    voice,      \* the AdditiveVoice
    v_call,     \* the last voice operation, its arguments and the voice before it
    v_ret,      \* what that operation returned
    plugin,     \* the AthenicDemodulator of lib.rs
    p_call,     \* the last plugin operation and its arguments
    p_ret,      \* what that operation returned
    steps       \* operations performed so far

d_vars == <<demod, d_params, d_call, d_ret>>
v_vars == <<voice, v_call, v_ret>>
p_vars == <<plugin, p_call, p_ret>>
vars == <<driving, demod, d_params, d_call, d_ret, voice, v_call, v_ret,
          plugin, p_call, p_ret, steps>>

\* ------------------------------------------------------- fixed-point helpers
Harmonics == 1..MAX_HARMONICS

Zeros == [h \in Harmonics |-> 0]

Max(a, b) == IF a >= b THEN a ELSE b
Min(a, b) == IF a <= b THEN a ELSE b

\* f32 division of a by the count n, rounding toward zero
FDivInt(a, n) == IF a >= 0 THEN a \div n ELSE -((-a) \div n)

\* f32 product
FMul(a, b) == IF a * b >= 0 THEN (a * b) \div ONE ELSE -((-(a * b)) \div ONE)

\* f32::signum: 1.0 for +0.0 and positive values, -1.0 for negative values
Signum(x) == IF x < 0 THEN -1 ELSE 1

RECURSIVE Pow(_, _)
Pow(b, e) == IF e = 0 THEN 1 ELSE b * Pow(b, e - 1)

ConstSeq(n, v) == [i \in 1..n |-> v]

\* TRUE, once v is evaluated: the loops below evaluate each iteration's state
\* before they go on to the next
Evaluated(v) == v = v

\* v, computed before it is handed on
Forced(v) == IF Evaluated(v) THEN v ELSE v

\* ------------------------------------------------------------ CVDemodulator
DefaultDemod ==
    [progress |-> 0,
     prev_harmonic |-> 1,
     sample_count |-> 0,
     working_amp_l |-> Zeros,
     working_amp_r |-> Zeros]

DemodReset(d) ==
    [d EXCEPT !.progress = 0, !.prev_harmonic = 1, !.sample_count = 0]

\* mutant: a gate that also rejects a sample at the floor or at the ceiling
GateInclusive(x, floor, ceiling) ==
    IF x >= ceiling \/ x <= floor THEN 0 ELSE x

\* the gate of one biased sample: "if l > ceiling { l = 0 } if l < floor { l = 0 }"
Gate(x, floor, ceiling) ==
    LET a == IF x > ceiling THEN 0 ELSE x
    IN  IF a < floor THEN 0 ELSE a

\* l * l * l.signum()
Rectify(x) == FMul(x, x) * Signum(x)

\* floor(exp(ln(harmonic_count) * progress / DEMOD_BLOCK_SIZE)): the largest k
\* with k^DEMOD_BLOCK_SIZE <= harmonic_count^progress
ExponentialLaw(harmonic_count, progress) ==
    LET top == Pow(harmonic_count, progress)
        ks  == {k \in 1..harmonic_count : Pow(k, DEMOD_BLOCK_SIZE) <= top}
    IN  CHOOSE k \in ks : \A j \in ks : j <= k

\* floor(harmonic_count * progress / DEMOD_BLOCK_SIZE)
LinearLaw(harmonic_count, progress) ==
    (harmonic_count * progress) \div DEMOD_BLOCK_SIZE

DistributionModes == {"Exponential", "Linear"}

\* the two laws, tabulated over the harmonic counts 1..MAX_HARMONICS and the
\* progress values up to DEMOD_BLOCK_SIZE
DistributionLaw ==
    [m \in DistributionModes |->
        [c \in 1..MAX_HARMONICS |->
            [g \in 0..DEMOD_BLOCK_SIZE |->
                IF m = "Exponential" THEN ExponentialLaw(c, g) ELSE LinearLaw(c, g)]]]

NextHarmonic(p, progress) ==
    DistributionLaw[p.distribution_mode][p.harmonic_count][progress]
    + p.harmonic_offset

\* the body of "for harmonic in ..." for one harmonic; l, r are the rectified values
VisitHarmonic(d, harmonic, l, r) ==
    IF harmonic # d.prev_harmonic
    THEN [d EXCEPT !.sample_count = 0,
                   !.working_amp_l[harmonic] = l,
                   !.working_amp_r[harmonic] = r,
                   !.prev_harmonic = harmonic]
    ELSE LET sc == d.sample_count + 1
         IN  [d EXCEPT !.sample_count = sc,
                       !.working_amp_l[harmonic] =
                           FDivInt(d.working_amp_l[harmonic] * sc + l, sc),
                       !.working_amp_r[harmonic] =
                           FDivInt(d.working_amp_r[harmonic] * sc + r, sc),
                       !.prev_harmonic = harmonic]

RECURSIVE VisitHarmonics(_, _, _, _, _)
VisitHarmonics(d, harmonic, last, l, r) ==
    IF Evaluated(d) /\ harmonic <= last
    THEN VisitHarmonics(VisitHarmonic(d, harmonic, l, r), harmonic + 1, last, l, r)
    ELSE d

\* mutant: the block completes one sample late
BlockCompleteLate(progress) == progress > DEMOD_BLOCK_SIZE

\* "if self.progress >= DEMOD_BLOCK_SIZE": the block is complete
BlockComplete(progress) == progress >= DEMOD_BLOCK_SIZE

\* mutant: a block completion that leaves the working arrays as they are
CompleteBlockKeepsAmps(d) ==
    [d EXCEPT !.progress = 0, !.prev_harmonic = 1]

\* mutant: a block completion that leaves one sample of progress
CompleteBlockOffByOne(d) ==
    [d EXCEPT !.progress = 1,
              !.working_amp_l = Zeros,
              !.working_amp_r = Zeros,
              !.prev_harmonic = 1]

\* what a block completion leaves of the state
CompleteBlock(d) ==
    [d EXCEPT !.progress = 0,
              !.working_amp_l = Zeros,
              !.working_amp_r = Zeros,
              !.prev_harmonic = 1]

\* the harmonic loop of one sample: "for harmonic in
\* prev_harmonic.max(harmonic_offset).max(1) ..= next_harmonic.min(MAX_HARMONICS)";
\* l, r are the gated values
Accumulate(d, l, r, p) ==
    VisitHarmonics(d, Max(Max(d.prev_harmonic, p.harmonic_offset), 1),
                   Min(NextHarmonic(p, d.progress), MAX_HARMONICS),
                   Rectify(l), Rectify(r))

\* "amps = Some((self.working_amp_l, self.working_amp_r))"
Snapshot(d) == [l |-> d.working_amp_l, r |-> d.working_amp_r]

\* the end of one iteration, d being the demodulator after "self.progress += 1".
\* st holds the demodulator d, the pending return value amps (<<>> is None,
\* <<s>> is Some(s)), and the history of the call: the snapshots taken
\* (emitted), the demodulator after each of them (after) and the gated samples
\* (gated).
EndSample(st, d, l, r) ==
    IF BlockComplete(d.progress)
    THEN [st EXCEPT !.d = CompleteBlock(d),
                    !.amps = <<Snapshot(d)>>,
                    !.emitted = Append(@, Snapshot(d)),
                    !.after = Append(@, CompleteBlock(d)),
                    !.gated = Append(@, [l |-> l, r |-> r])]
    ELSE [st EXCEPT !.d = d, !.gated = Append(@, [l |-> l, r |-> r])]

\* one iteration of "for n in 0..in_l.len()" after the gate
GatedSample(st, l, r, p) ==
    EndSample(st, [Accumulate(st.d, l, r, p) EXCEPT !.progress = @ + 1], l, r)

\* one iteration of "for n in 0..in_l.len()"
SubmitSample(st, in_l, in_r, p) ==
    GatedSample(st, Gate(in_l + p.bias, p.floor, p.ceiling),
                Gate(in_r + p.bias, p.floor, p.ceiling), p)

RECURSIVE SubmitLoop(_, _, _, _, _)
SubmitLoop(st, n, in_l, in_r, p) ==
    IF Evaluated(st) /\ n <= Len(in_l)
    THEN SubmitLoop(SubmitSample(st, in_l[n], in_r[n], p), n + 1, in_l, in_r, p)
    ELSE st

\* mutant: every call starts over at harmonic 1
SubmitSamplesRewinds(d, in_l, in_r, p) ==
    IF Len(in_l) # Len(in_r)
    THEN [d |-> d, amps |-> <<>>, emitted |-> <<>>, after |-> <<>>, gated |-> <<>>,
          panic |-> TRUE]
    ELSE SubmitLoop([d |-> [d EXCEPT !.prev_harmonic = 1],
                     amps |-> <<>>, emitted |-> <<>>, after |-> <<>>, gated |-> <<>>,
                     panic |-> FALSE],
                    1, in_l, in_r, p)

\* CVDemodulator::submit_samples; panic is the failed assert_eq!
SubmitSamples(d, in_l, in_r, p) ==
    IF Len(in_l) # Len(in_r)
    THEN [d |-> d, amps |-> <<>>, emitted |-> <<>>, after |-> <<>>, gated |-> <<>>,
          panic |-> TRUE]
    ELSE SubmitLoop([d |-> IF d.progress >= DEMOD_BLOCK_SIZE THEN CompleteBlock(d) ELSE d,
                     amps |-> <<>>, emitted |-> <<>>, after |-> <<>>, gated |-> <<>>,
                     panic |-> FALSE],
                    1, in_l, in_r, p)

\* --------------------------------------------------------------- AREnvelope
\* #[derive(Default)]
DefaultEnvelope ==
    [state |-> 0, attack_coeff |-> 0, release_coeff |-> 0, releasing |-> FALSE]

\* exp(-x) for x >= 0, as 1 / (1 + x + x^2/2); 0 beyond x = 20
ExpNeg(x) ==
    IF x >= 20 * ONE THEN 0
    ELSE (ONE * ONE) \div (ONE + x + (x * x) \div (2 * ONE))

\* (-1.0 / (time_ms / 1000.0 * sample_rate)).exp(); time_ms = 0 gives exp(-inf) = 0
TimeCoeff(sample_rate, time_ms) ==
    IF time_ms * sample_rate <= 0 THEN 0
    ELSE ExpNeg((ONE * 1000) \div (time_ms * sample_rate))

SetAttackTime(e, sample_rate, time_ms) ==
    [e EXCEPT !.attack_coeff = TimeCoeff(sample_rate, time_ms)]

SetReleaseTime(e, sample_rate, time_ms) ==
    [e EXCEPT !.release_coeff = TimeCoeff(sample_rate, time_ms)]

EnvReset(e) == [e EXCEPT !.state = 0, !.releasing = FALSE]

StartRelease(e) == [e EXCEPT !.releasing = TRUE]

\* 0.001
ReleaseFloor == ONE \div 1000

\* mutant: a release that lasts as long as the flag is set
IsReleasingWhileSet(e) == e.releasing

IsReleasing(e) == e.releasing /\ e.state >= ReleaseFloor

\* mutant: the target is added in full
EnvNextOvershoots(e) ==
    LET target == IF e.releasing THEN 0 ELSE ONE
        t      == IF e.releasing THEN e.release_coeff ELSE e.attack_coeff
    IN  FMul(e.state, t) + target

\* one iteration of next_block: the new state
EnvNext(e) ==
    LET target == IF e.releasing THEN 0 ELSE ONE
        t      == IF e.releasing THEN e.release_coeff ELSE e.attack_coeff
    IN  FMul(e.state, t) + FMul(target, ONE - t)

\* "self.state = new; *value = new": st.e is the envelope, st.values the
\* values written so far
EnvWrite(st, new) ==
    [e |-> [st.e EXCEPT !.state = new], values |-> Append(st.values, new)]

\* the loop of next_block, k values to go
RECURSIVE NextBlockLoop(_, _)
NextBlockLoop(st, k) ==
    IF Evaluated(st) /\ k > 0
    THEN NextBlockLoop(EnvWrite(st, EnvNext(st.e)), k - 1)
    ELSE st

NextBlock(e, block_len) == NextBlockLoop([e |-> e, values |-> <<>>], block_len)

\* ----------------------------------------------------------- AdditiveEngine
DefaultEngine ==
    [phases |-> Zeros, amp_l |-> Zeros, amp_r |-> Zeros,
     last_amp_l |-> Zeros, last_amp_r |-> Zeros]

\* copy_from_slice panics unless the slices have MAX_HARMONICS entries
SubmitAmplitudes(eng, amp_l, amp_r) ==
    IF Len(amp_l) # MAX_HARMONICS \/ Len(amp_r) # MAX_HARMONICS
    THEN [engine |-> eng, panic |-> TRUE]
    ELSE [engine |-> [eng EXCEPT !.amp_l = amp_l, !.amp_r = amp_r], panic |-> FALSE]

ResetSlewTracking(eng) == [eng EXCEPT !.last_amp_l = Zeros, !.last_amp_r = Zeros]

\* "*phase += step; if *phase > 2.0 { *phase -= 2.0 }"
AdvancePhase(phase, step) ==
    IF phase + step > 2 * ONE THEN phase + step - 2 * ONE ELSE phase + step

\* "freq >= 20.0 && freq <= sr_f64 / 2.0"; sample_rate is in Hz
InAudioRange(freq, sample_rate) ==
    freq >= 20 * ONE /\ 2 * freq <= sample_rate * ONE

\* sin(phase * TAU), as the parabola through the zeros and extrema of each half cycle
Sin(phase) ==
    LET x == phase % ONE
        h == ONE \div 2
    IN  IF x <= h THEN (8 * x * (h - x)) \div h
        ELSE -((8 * (x - h) * (ONE - x)) \div h)

\* 12.5 / sample_rate
SlewThreshold(sample_rate) == (25 * ONE) \div (2 * sample_rate)

\* f32::clamp
Clamp(x, lo, hi) == IF x < lo THEN lo ELSE IF x > hi THEN hi ELSE x

\* mutant: the amplitude jumps to its target when it rises
SlewOnlyFalling(amp, last_amp, sample_rate) ==
    last_amp + Clamp(amp - last_amp, -SlewThreshold(sample_rate), amp - last_amp)

\* last_amp + delta_amp.clamp(-slew_threshold, slew_threshold)
Slew(amp, last_amp, sample_rate) ==
    last_amp + Clamp(amp - last_amp, -SlewThreshold(sample_rate), SlewThreshold(sample_rate))

\* the largest r in lo..hi with r * r <= x, by bisection
RECURSIVE SqrtBetween(_, _, _)
SqrtBetween(x, lo, hi) ==
    IF lo >= hi THEN lo
    ELSE LET mid == (lo + hi + 1) \div 2
         IN  IF mid * mid <= x THEN SqrtBetween(x, mid, hi) ELSE SqrtBetween(x, lo, mid - 1)

\* f32::sqrt of a value in [0, 1], scaled by ONE
ISqrt(x) == SqrtBetween(x, 0, ONE)

GainModes == {"Flat", "Sawtooth"}

\* BasicGainMode::Flat => 1.0, BasicGainMode::Sawtooth => (1.0 / (i + 1)).sqrt()
BasicGain ==
    [g \in GainModes |->
        [h \in Harmonics |-> IF g = "Flat" THEN ONE ELSE ISqrt((ONE * ONE) \div h)]]

RECURSIVE SumTo(_, _)
SumTo(f, h) == IF h = 0 THEN 0 ELSE f[h] + SumTo(f, h - 1)

\* one iteration of "for n in 0..out_l.len()": every harmonic's phase advances,
\* the harmonics in the audio range are slewed and summed
GenerateSample(eng, i_freqs, sample_rate, basic_gain_mode) ==
    LET phases == [h \in Harmonics |->
                      AdvancePhase(eng.phases[h], i_freqs[h] \div sample_rate)]
        in_range == [h \in Harmonics |-> InAudioRange(i_freqs[h], sample_rate)]
        amp_l  == [h \in Harmonics |-> Slew(eng.amp_l[h], eng.last_amp_l[h], sample_rate)]
        amp_r  == [h \in Harmonics |-> Slew(eng.amp_r[h], eng.last_amp_r[h], sample_rate)]
        v      == [h \in Harmonics |-> Sin(phases[h])]
        gain   == BasicGain[basic_gain_mode]
        part_l == [h \in Harmonics |->
                      IF in_range[h] THEN FMul(FMul(v[h], amp_l[h]), gain[h]) ELSE 0]
        part_r == [h \in Harmonics |->
                      IF in_range[h] THEN FMul(FMul(v[h], amp_r[h]), gain[h]) ELSE 0]
    IN  [engine |->
            [eng EXCEPT
                !.phases = phases,
                !.last_amp_l = [h \in Harmonics |->
                                   IF in_range[h] THEN amp_l[h] ELSE eng.last_amp_l[h]],
                !.last_amp_r = [h \in Harmonics |->
                                   IF in_range[h] THEN amp_r[h] ELSE eng.last_amp_r[h]]],
         samp_l |-> SumTo(part_l, MAX_HARMONICS),
         samp_r |-> SumTo(part_r, MAX_HARMONICS)]

\* "out_l[n] += samp_l; out_r[n] += samp_r": st.engine is the engine, st.out_l
\* and st.out_r the output buffers, g the sample generated; st.added logs
\* samp_l and samp_r, st.slewed logs last_amp_l and last_amp_r before and
\* after each sample
AddSample(st, n, g) ==
    [st EXCEPT !.engine = g.engine,
               !.out_l[n] = @ + g.samp_l,
               !.out_r[n] = @ + g.samp_r,
               !.added = Append(@, [l |-> g.samp_l, r |-> g.samp_r]),
               !.slewed = Append(@, [from_l |-> st.engine.last_amp_l,
                                     to_l |-> g.engine.last_amp_l,
                                     from_r |-> st.engine.last_amp_r,
                                     to_r |-> g.engine.last_amp_r])]

RECURSIVE GenerateLoop(_, _, _, _, _)
GenerateLoop(st, n, i_freqs, sample_rate, basic_gain_mode) ==
    IF Evaluated(st) /\ n <= Len(st.out_l)
    THEN GenerateLoop(
             AddSample(st, n, GenerateSample(st.engine, i_freqs, sample_rate,
                                             basic_gain_mode)),
             n + 1, i_freqs, sample_rate, basic_gain_mode)
    ELSE st

\* AdditiveEngine::generate_samples; panic is the failed assert_eq!
GenerateSamples(eng, i_freqs, sample_rate, out_l, out_r, basic_gain_mode) ==
    IF Len(out_l) # Len(out_r)
    THEN [engine |-> eng, out_l |-> out_l, out_r |-> out_r, added |-> <<>>,
          slewed |-> <<>>, panic |-> TRUE]
    ELSE GenerateLoop([engine |-> eng, out_l |-> out_l, out_r |-> out_r,
                       added |-> <<>>, slewed |-> <<>>, panic |-> FALSE],
                      1, i_freqs, sample_rate, basic_gain_mode)

\* ------------------------------------------------------------ AdditiveVoice
\* const BEND_RANGE
BEND_RANGE == 12

\* "*phi = MAX_HARMONICS as f64 / (i + 1) as f64"
StaggeredPhases == [h \in Harmonics |-> (MAX_HARMONICS * ONE) \div h]

ResetPhases(v) == [v EXCEPT !.engine.phases = StaggeredPhases]

DefaultVoice ==
    ResetPhases([engine |-> DefaultEngine,
                 envelope |-> DefaultEnvelope,
                 current_midi_note |-> 0,
                 bend_value |-> ONE \div 2,
                 notes_on |-> 0])

\* mutant: a note-on that never resets the envelope
NoteOnKeepsEnvelope(v, note) ==
    [v EXCEPT !.current_midi_note = note, !.notes_on = @ + 1]

NoteOn(v, note) ==
    LET v1 == IF v.notes_on = 0 THEN [v EXCEPT !.envelope = EnvReset(@)] ELSE v
    IN  [v1 EXCEPT !.current_midi_note = note, !.notes_on = @ + 1]

NoteOff(v) ==
    LET v1 == [v EXCEPT !.notes_on = IF @ = 0 THEN 0 ELSE @ - 1]
    IN  IF v1.notes_on = 0 THEN [v1 EXCEPT !.envelope = StartRelease(@)] ELSE v1

MidiPitchBend(v, value) == [v EXCEPT !.bend_value = value]

VoiceReset(v) ==
    [v EXCEPT !.envelope = EnvReset(@),
              !.notes_on = 0,
              !.engine = ResetSlewTracking(@)]

\* 2^(k/12) for k = 0..12, in thousandths
SemitoneRatio == <<1000, 1059, 1122, 1189, 1260, 1335, 1414, 1498, 1587, 1682, 1782, 1888, 2000>>

\* 2^((note - 69) / 12) * 440, note in semitones
NoteFrequency(note) ==
    LET rel   == note - 69 * ONE
        n     == rel \div ONE
        f     == rel - n * ONE
        oct   == n \div 12
        k     == n % 12
        ratio == SemitoneRatio[k + 1]
                 + ((SemitoneRatio[k + 2] - SemitoneRatio[k + 1]) * f) \div ONE
        base  == (440 * ratio * ONE) \div 1000
    IN  IF oct >= 0 THEN base * Pow(2, oct) ELSE base \div Pow(2, -oct)

\* current_midi_note + (bend_value.clamp(0.0, 1.0) * 2.0 - 1.0) * BEND_RANGE
BentNote(v) ==
    v.current_midi_note * ONE + (Clamp(v.bend_value, 0, ONE) * 2 - ONE) * BEND_RANGE

\* i_freqs[n] = fundamental * (n + 1)
HarmonicFrequencies(v) == [h \in Harmonics |-> NoteFrequency(BentNote(v)) * h]

\* mutant: the sub-block is stored in the output instead of added to it
MixBlockOverwrites(st, block_len, env, gen) ==
    [voice |-> [st.voice EXCEPT !.envelope = env.e, !.engine = gen.engine],
     out_l |-> [n \in 1..Len(st.out_l) |->
                   IF n > st.i /\ n <= st.i + block_len
                   THEN FMul(gen.out_l[n - st.i], env.values[n - st.i])
                   ELSE st.out_l[n]],
     out_r |-> [n \in 1..Len(st.out_r) |->
                   IF n > st.i /\ n <= st.i + block_len
                   THEN FMul(gen.out_r[n - st.i], env.values[n - st.i])
                   ELSE st.out_r[n]],
     added |-> st.added \o [n \in 1..block_len |->
                               [l |-> FMul(gen.out_l[n], env.values[n]),
                                r |-> FMul(gen.out_r[n], env.values[n])]],
     envelope_values |-> st.envelope_values \o env.values,
     slewed |-> st.slewed \o gen.slewed,
     i |-> st.i + block_len]

\* "out_l[i + smp] += buf_l[smp] * envelope_values[smp]", and the same on the
\* right: env is what next_block returned, gen what generate_samples returned;
\* added logs the products, envelope_values what next_block wrote
MixBlock(st, block_len, env, gen) ==
    [voice |-> [st.voice EXCEPT !.envelope = env.e, !.engine = gen.engine],
     out_l |-> [n \in 1..Len(st.out_l) |->
                   IF n > st.i /\ n <= st.i + block_len
                   THEN st.out_l[n] + FMul(gen.out_l[n - st.i], env.values[n - st.i])
                   ELSE st.out_l[n]],
     out_r |-> [n \in 1..Len(st.out_r) |->
                   IF n > st.i /\ n <= st.i + block_len
                   THEN st.out_r[n] + FMul(gen.out_r[n - st.i], env.values[n - st.i])
                   ELSE st.out_r[n]],
     added |-> st.added \o [n \in 1..block_len |->
                               [l |-> FMul(gen.out_l[n], env.values[n]),
                                r |-> FMul(gen.out_r[n], env.values[n])]],
     envelope_values |-> st.envelope_values \o env.values,
     slewed |-> st.slewed \o gen.slewed,
     i |-> st.i + block_len]

\* one iteration of "while i < out_l.len()"; st.i is the offset of the sub-block
VoiceBlock(st, block_len, i_freqs, sample_rate, basic_gain_mode) ==
    MixBlock(st, block_len,
             NextBlock(st.voice.envelope, block_len),
             GenerateSamples(st.voice.engine, i_freqs, sample_rate,
                             ConstSeq(block_len, 0), ConstSeq(block_len, 0),
                             basic_gain_mode))

RECURSIVE VoiceBlocks(_, _, _, _)
VoiceBlocks(st, i_freqs, sample_rate, basic_gain_mode) ==
    IF Evaluated(st) /\ st.i < Len(st.out_l)
    THEN VoiceBlocks(
             VoiceBlock(st, Min(Len(st.out_l) - st.i, VOICE_BLOCK_SIZE),
                        i_freqs, sample_rate, basic_gain_mode),
             i_freqs, sample_rate, basic_gain_mode)
    ELSE st

\* mutant: a voice counts as idle only once its release has been started
VoiceIdleOnlyReleased(v) == v.notes_on = 0 /\ v.envelope.releasing /\ ~IsReleasing(v.envelope)

\* "if !(self.notes_on > 0 || self.envelope.is_releasing()) { return; }"
VoiceIdle(v) == ~(v.notes_on > 0 \/ IsReleasing(v.envelope))

\* "if self.notes_on == 0 && !self.envelope.is_releasing()": the voice is silent
VoiceSilent(v) == v.notes_on = 0 /\ ~IsReleasing(v.envelope)

\* mutant: the silent voice keeps its slew state
SilenceVoiceKeepsSlew(v) == ResetPhases(v)

\* what process does when the voice has become silent
SilenceVoice(v) == [ResetPhases(v) EXCEPT !.engine = ResetSlewTracking(@)]

\* the end of process, after the sub-blocks
EndProcess(st) ==
    [voice |-> IF VoiceSilent(st.voice) THEN SilenceVoice(st.voice) ELSE st.voice,
     out_l |-> st.out_l, out_r |-> st.out_r, added |-> st.added,
     envelope_values |-> st.envelope_values, slewed |-> st.slewed,
     worked |-> TRUE, panic |-> FALSE]

\* AdditiveVoice::process; worked tells that the call went past the early
\* return, panic is the failed assert_eq!
VoiceProcess(v, sample_rate, out_l, out_r, basic_gain_mode, slew_limiting) ==
    IF VoiceIdle(v)
    THEN [voice |-> v, out_l |-> out_l, out_r |-> out_r, added |-> <<>>,
          envelope_values |-> <<>>, slewed |-> <<>>, worked |-> FALSE, panic |-> FALSE]
    ELSE IF Len(out_l) # Len(out_r)
    THEN [voice |-> v, out_l |-> out_l, out_r |-> out_r, added |-> <<>>,
          envelope_values |-> <<>>, slewed |-> <<>>, worked |-> TRUE, panic |-> TRUE]
    ELSE EndProcess(VoiceBlocks([voice |-> v, out_l |-> out_l, out_r |-> out_r,
                                 added |-> <<>>, envelope_values |-> <<>>,
                                 slewed |-> <<>>, i |-> 0],
                                Forced(HarmonicFrequencies(v)), sample_rate,
                                basic_gain_mode))

\* ------------------------------------------- AthenicDemodulator (lib.rs)
\* const BLOCK_SIZE, 1050 as DEMOD_BLOCK_SIZE
BLOCK_SIZE == DEMOD_BLOCK_SIZE

\* AdditiveEngine::default() of lib.rs
DefaultPluginEngine ==
    [prev_working_harmonic |-> 1,
     working_harmonic_amplitudes_l |-> Zeros,
     working_harmonic_amplitudes_r |-> Zeros,
     block_harmonic_amplitudes_l |-> Zeros,
     block_harmonic_amplitudes_r |-> Zeros,
     prev_block_harmonic_amplitudes_l |-> Zeros,
     prev_block_harmonic_amplitudes_r |-> Zeros,
     last_sample_harmonic_amplitude_l |-> Zeros,
     last_sample_harmonic_amplitude_r |-> Zeros,
     harmonic_phases |-> Zeros,
     working_progress |-> 0,
     playback_progress |-> 0,
     harmonic_sample_count |-> 0,
     was_emitting |-> FALSE]

\* AdditiveEngine::reset_phases of lib.rs
PluginResetPhases(eng) == [eng EXCEPT !.harmonic_phases = StaggeredPhases]

\* AthenicDemodulator::default(); envelope_values has ENVELOPE_VALUES entries
DefaultPlugin ==
    [engine |-> PluginResetPhases(DefaultPluginEngine),
     sample_rate |-> 44100,
     notes_on |-> 0,
     current_midi_note |-> 0,
     bend_amount |-> ONE \div 2,
     envelope |-> DefaultEnvelope,
     envelope_values |-> ConstSeq(ENVELOPE_VALUES, 0)]

\* Plugin::initialize
PluginInitialize(pl, sample_rate) == [pl EXCEPT !.sample_rate = sample_rate]

\* Plugin::reset
PluginReset(pl) == [pl EXCEPT !.envelope = EnvReset(@)]

\* mutant: a NoteOn that restarts the analysis only when no note is held
PluginNoteOnLegato(pl, note) ==
    [pl EXCEPT !.envelope = EnvReset(@),
               !.engine.working_progress = IF pl.notes_on = 0 THEN 0 ELSE @,
               !.engine.prev_working_harmonic = IF pl.notes_on = 0 THEN 1 ELSE @,
               !.notes_on = @ + 1,
               !.current_midi_note = note]

\* the NoteOn arm of the render loop
PluginNoteOn(pl, note) ==
    [pl EXCEPT !.envelope = EnvReset(@),
               !.engine.working_progress = 0,
               !.engine.prev_working_harmonic = 1,
               !.notes_on = @ + 1,
               !.current_midi_note = note]

\* the NoteOff arm of the render loop
PluginNoteOff(pl) ==
    LET pl1 == [pl EXCEPT !.notes_on = IF @ = 0 THEN 0 ELSE @ - 1]
    IN  IF pl1.notes_on = 0 THEN [pl1 EXCEPT !.envelope = StartRelease(@)] ELSE pl1

\* the MidiPitchBend arm of the render loop
PluginPitchBend(pl, value) == [pl EXCEPT !.bend_amount = value]

\* "match event": the plugin after the event
PluginEvent(pl, event) ==
    CASE event.kind = "NoteOn" -> PluginNoteOn(pl, event.note)
      [] event.kind = "NoteOff" -> PluginNoteOff(pl)
      [] event.kind = "MidiPitchBend" -> PluginPitchBend(pl, event.value)
      [] OTHER -> pl

\* the arm "event.timing() == sample_idx": the event is handled and the next
\* one fetched; st.handled logs each event handled with the plugin around it
HandleEvent(st, event) ==
    [st EXCEPT !.events = Tail(@),
               !.plugin = PluginEvent(@, event),
               !.handled = Append(@, [event |-> event,
                                      before |-> st.plugin,
                                      after |-> PluginEvent(st.plugin, event)])]

\* the 'events loop at sample_idx (0-based): the head of st.events is note_event
RECURSIVE DispatchEvents(_, _)
DispatchEvents(st, sample_idx) ==
    IF st.events = <<>> THEN st
    ELSE IF Head(st.events).timing < sample_idx
    THEN DispatchEvents([st EXCEPT !.events = Tail(@)], sample_idx)
    ELSE IF Head(st.events).timing = sample_idx
    THEN DispatchEvents(HandleEvent(st, Head(st.events)), sample_idx)
    ELSE st

\* the distribution law of the render loop, "+ partial_offset"
PluginNextHarmonic(p, working_progress) ==
    DistributionLaw[p.distribution_mode][p.harmonic_count][working_progress]
        + p.harmonic_offset

\* the gate of the render loop
PluginGate(x, floor, ceiling) ==
    LET a == IF x > ceiling THEN 0 ELSE x
    IN  IF a < floor THEN 0 ELSE a

\* one iteration of "for harmonic in prev_working_harmonic.max(partial_offset)
\* ..= next_harmonic", after the "harmonic >= 512" test
PluginVisitHarmonic(eng, harmonic, l, r) ==
    IF harmonic # eng.prev_working_harmonic
    THEN [eng EXCEPT !.working_harmonic_amplitudes_l[harmonic] = l,
                     !.working_harmonic_amplitudes_r[harmonic] = r,
                     !.harmonic_sample_count = 1,
                     !.prev_working_harmonic = harmonic]
    ELSE LET count == eng.harmonic_sample_count + 1
         IN  [eng EXCEPT
                 !.harmonic_sample_count = count,
                 !.working_harmonic_amplitudes_l[harmonic] =
                     FDivInt(@ * (count - 1) + l, count),
                 !.working_harmonic_amplitudes_r[harmonic] =
                     FDivInt(@ * (count - 1) + r, count),
                 !.prev_working_harmonic = harmonic]

RECURSIVE PluginVisitHarmonics(_, _, _, _, _)
PluginVisitHarmonics(eng, harmonic, next_harmonic, l, r) ==
    IF Evaluated(eng) /\ harmonic <= next_harmonic /\ harmonic < MAX_HARMONICS
    THEN PluginVisitHarmonics(PluginVisitHarmonic(eng, harmonic, l, r),
                              harmonic + 1, next_harmonic, l, r)
    ELSE eng

\* "if self.engine.working_progress >= BLOCK_SIZE": the block is handed over
PluginCompleteBlock(eng) ==
    [eng EXCEPT !.working_progress = 0,
                !.prev_block_harmonic_amplitudes_l = eng.block_harmonic_amplitudes_l,
                !.prev_block_harmonic_amplitudes_r = eng.block_harmonic_amplitudes_r,
                !.block_harmonic_amplitudes_l = eng.working_harmonic_amplitudes_l,
                !.block_harmonic_amplitudes_r = eng.working_harmonic_amplitudes_r,
                !.working_harmonic_amplitudes_l = Zeros,
                !.working_harmonic_amplitudes_r = Zeros,
                !.prev_working_harmonic = 1]

\* "if self.engine.working_progress < BLOCK_SIZE": the harmonic loop of one
\* sample; amplitude_l, amplitude_r are the gated values
PluginAccumulate(eng, amplitude_l, amplitude_r, p) ==
    IF eng.working_progress < BLOCK_SIZE
    THEN PluginVisitHarmonics(eng, Max(eng.prev_working_harmonic, p.harmonic_offset),
                              PluginNextHarmonic(p, eng.working_progress),
                              Rectify(amplitude_l), Rectify(amplitude_r))
    ELSE eng

\* "working_progress += 1", the hand-over of a full block, "playback_progress += 1"
PluginAdvance(eng) ==
    IF eng.working_progress + 1 >= BLOCK_SIZE
    THEN [PluginCompleteBlock(eng) EXCEPT !.playback_progress = @ + 1]
    ELSE [eng EXCEPT !.working_progress = @ + 1, !.playback_progress = @ + 1]

\* the analysis half of one sample, after the gate: accumulation, hand-over,
\* and the input sample cleared; st.gated logs the gated values
PluginGated(st, n, amplitude_l, amplitude_r, p) ==
    [st EXCEPT !.plugin.engine =
                   PluginAdvance(PluginAccumulate(@, amplitude_l, amplitude_r, p)),
               !.buf_l[n] = 0,
               !.buf_r[n] = 0,
               !.gated = Append(@, [l |-> amplitude_l, r |-> amplitude_r])]

\* the analysis half of one sample
PluginAnalyse(st, n, p) ==
    PluginGated(st, n, PluginGate(st.buf_l[n] + p.bias, p.floor, p.ceiling),
                PluginGate(st.buf_r[n] + p.bias, p.floor, p.ceiling), p)

\* f32::ceil(a / b) as usize, for a >= 0 and b > 0
CeilDiv(a, b) == -((-a) \div b)

\* util::f32_midi_note_to_freq(current_midi_note + (bend.clamp(0, 1) * 2 - 1) * 12)
PluginFundamental(pl) ==
    NoteFrequency(pl.current_midi_note * ONE
                  + (Clamp(pl.bend_amount, 0, ONE) * 2 - ONE) * 12)

\* prev_block * (1 - playback_t) + block * playback_t, slewed from last
PluginAmplitude(prev_block, block, last, playback_t, sample_rate) ==
    Slew(FMul(prev_block, ONE - playback_t) + FMul(block, playback_t), last, sample_rate)

\* "for i in 0..512": the amplitudes of all partials, slewed
PluginAmplitudes(eng, playback_t, sample_rate) ==
    [l |-> [h \in Harmonics |->
               PluginAmplitude(eng.prev_block_harmonic_amplitudes_l[h],
                               eng.block_harmonic_amplitudes_l[h],
                               eng.last_sample_harmonic_amplitude_l[h],
                               playback_t, sample_rate)],
     r |-> [h \in Harmonics |->
               PluginAmplitude(eng.prev_block_harmonic_amplitudes_r[h],
                               eng.block_harmonic_amplitudes_r[h],
                               eng.last_sample_harmonic_amplitude_r[h],
                               playback_t, sample_rate)]]

\* the phases after harmonic_phases[start..end] (0-based, end excluded) have
\* been stepped: the k-th of them by k * fundamental / sample_rate
PluginPhases(eng, fundamental, start, end, sample_rate) ==
    [h \in Harmonics |->
        IF h > start /\ h <= end
        THEN eng.harmonic_phases[h] + (fundamental * (h - start)) \div sample_rate
        ELSE eng.harmonic_phases[h]]

\* sin(phase * TAU) * (sqrt(1 / k) * 2) * amplitude, the k-th partial of the slice
PluginPartial(phase, k, amplitude) ==
    FMul(FMul(Sin(phase), BasicGain["Sawtooth"][k] * 2), amplitude)

\* the partials of harmonic_phases[start..end], stepped (phases) and summed
\* with the amplitudes amps; panic is the slice whose start is beyond its end
PluginPartials(eng, amps, phases, start, end) ==
    [engine |-> [eng EXCEPT !.was_emitting = TRUE,
                            !.last_sample_harmonic_amplitude_l = amps.l,
                            !.last_sample_harmonic_amplitude_r = amps.r,
                            !.harmonic_phases = IF start > end THEN @ ELSE phases],
     l |-> SumTo([k \in Harmonics |->
                     IF start <= end /\ k <= end - start
                     THEN PluginPartial(phases[start + k], k, amps.l[k]) ELSE 0],
                 MAX_HARMONICS),
     r |-> SumTo([k \in Harmonics |->
                     IF start <= end /\ k <= end - start
                     THEN PluginPartial(phases[start + k], k, amps.r[k]) ELSE 0],
                 MAX_HARMONICS),
     panic |-> start > end]

\* the slice harmonic_phases[0.max(floor_harmonic_idx)
\* .. num_partials.min(nyquist_harmonic_idx)] of the engine eng
PluginSlice(eng, amps, fundamental, start, end, sample_rate) ==
    PluginPartials(eng, amps,
                   Forced(PluginPhases(eng, fundamental, start, end, sample_rate)),
                   start, end)

\* the synthesis half of one sample while the voice sounds
PluginSynthesise(pl, p, fundamental, playback_t) ==
    PluginSlice(pl.engine,
                Forced(PluginAmplitudes(pl.engine, playback_t, pl.sample_rate)),
                fundamental,
                Max(0, CeilDiv(20 * ONE, fundamental)),
                Min(p.harmonic_count, CeilDiv(pl.sample_rate * ONE, 2 * fundamental)),
                pl.sample_rate)

\* "else if self.engine.was_emitting": the voice has just gone silent
PluginSilence(eng) ==
    [PluginResetPhases(eng) EXCEPT
        !.was_emitting = FALSE,
        !.last_sample_harmonic_amplitude_l = Zeros,
        !.last_sample_harmonic_amplitude_r = Zeros,
        !.block_harmonic_amplitudes_l = Zeros,
        !.block_harmonic_amplitudes_r = Zeros,
        !.prev_block_harmonic_amplitudes_l = Zeros,
        !.prev_block_harmonic_amplitudes_r = Zeros]

\* "if self.engine.playback_progress >= BLOCK_SIZE"
PluginWrapPlayback(eng) ==
    IF eng.playback_progress >= BLOCK_SIZE THEN [eng EXCEPT !.playback_progress = 0]
    ELSE eng

\* the sample written from what the synthesis syn returned; the read of
\* envelope_values[sample_idx] panics beyond the vector's length; st.slewed
\* logs last_sample_harmonic_amplitude_l and _r before and after each sample
PluginWrite(st, n, syn) ==
    IF syn.panic \/ n > Len(st.plugin.envelope_values)
    THEN [st EXCEPT !.plugin.engine = syn.engine, !.panic = TRUE]
    ELSE [st EXCEPT !.plugin.engine = PluginWrapPlayback(syn.engine),
                    !.slewed = Append(@,
                        [from_l |-> st.plugin.engine.last_sample_harmonic_amplitude_l,
                         to_l |-> syn.engine.last_sample_harmonic_amplitude_l,
                         from_r |-> st.plugin.engine.last_sample_harmonic_amplitude_r,
                         to_r |-> syn.engine.last_sample_harmonic_amplitude_r]),
                    !.buf_l[n] = FMul(syn.l, st.plugin.envelope_values[n]) \div 2,
                    !.buf_r[n] = FMul(syn.r, st.plugin.envelope_values[n]) \div 2]

\* the synthesis half of one sample
PluginEmit(st, n, p) ==
    IF st.plugin.notes_on > 0 \/ IsReleasing(st.plugin.envelope)
    THEN PluginWrite(st, n,
             PluginSynthesise(st.plugin, p, PluginFundamental(st.plugin),
                 (st.plugin.engine.playback_progress * ONE) \div BLOCK_SIZE))
    ELSE IF st.plugin.engine.was_emitting
    THEN [st EXCEPT !.plugin.engine = PluginWrapPlayback(PluginSilence(@))]
    ELSE [st EXCEPT !.plugin.engine = PluginWrapPlayback(@)]

\* one iteration of "for sample_idx in 0..num_samples"; n = sample_idx + 1
PluginSample(st, n, p) ==
    PluginEmit(Forced(PluginAnalyse(Forced(DispatchEvents(st, n - 1)), n, p)), n, p)

RECURSIVE PluginSamples(_, _, _)
PluginSamples(st, n, p) ==
    IF Evaluated(st) /\ n <= Len(st.buf_l) /\ ~st.panic
    THEN PluginSamples(PluginSample(st, n, p), n + 1, p)
    ELSE st

\* set_attack_time and set_release_time at the head of process
PluginSetTimes(pl, attack_ms, release_ms) ==
    [pl EXCEPT !.envelope = SetReleaseTime(SetAttackTime(@, pl.sample_rate, attack_ms),
                                           pl.sample_rate, release_ms)]

\* what next_block(&mut self.envelope_values, num_samples) returned is stored
PluginEnvelope(pl, env) ==
    [pl EXCEPT !.envelope = env.e,
               !.envelope_values =
                   [n \in 1..Len(@) |->
                       IF n <= Len(env.values) THEN env.values[n] ELSE @[n]]]

\* Plugin::process: the envelope is set up and run for the whole buffer, then
\* every sample is analysed and synthesised
PluginProcess(pl, buf_l, buf_r, events, p, attack_ms, release_ms) ==
    PluginSamples(
        [plugin |-> PluginEnvelope(PluginSetTimes(pl, attack_ms, release_ms),
                        NextBlock(PluginSetTimes(pl, attack_ms, release_ms).envelope,
                                  Min(Len(buf_l), Len(pl.envelope_values)))),
         buf_l |-> buf_l, buf_r |-> buf_r, events |-> events,
         handled |-> <<>>, gated |-> <<>>, slewed |-> <<>>, panic |-> FALSE],
        1, p)

\* ------------------------------------------------- the demodulator's callers
\* floor, ceiling and bias of the parameter snapshot
GateA == [floor |-> -ONE, ceiling |-> ONE, bias |-> 0]
GateB == [floor |-> ONE \div 4, ceiling |-> 2 * ONE, bias |-> ONE \div 2]

DemodParam(m, c, o, g) ==
    [distribution_mode |-> m, harmonic_count |-> c, harmonic_offset |-> o,
     floor |-> g.floor, ceiling |-> g.ceiling, bias |-> g.bias]

\* the parameter snapshots of the behaviours
DemodParams ==
    {DemodParam("Linear", 1, 0, GateA),
     DemodParam("Linear", MAX_HARMONICS, 0, GateA),
     DemodParam("Linear", MAX_HARMONICS, 0, GateB),
     DemodParam("Linear", 2, 1, GateB),
     DemodParam("Linear", MAX_HARMONICS, MAX_HARMONICS, GateA),
     DemodParam("Exponential", MAX_HARMONICS, 0, GateA),
     DemodParam("Exponential", 1, 0, GateB),
     DemodParam("Exponential", 2, 1, GateA)}

\* the lengths (left, right) of the chunks a caller submits
ChunkLens == {0, 1, DEMOD_BLOCK_SIZE - 1, DEMOD_BLOCK_SIZE, 2 * DEMOD_BLOCK_SIZE + 1}
ChunkLenPairs == {<<n, n>> : n \in ChunkLens} \cup {<<1, 2>>}

\* the sample values (left, right) of a chunk: with GateA and with GateB each
\* of "at the ceiling", "at the floor", "above", "below" and "inside" occurs
SamplePairs ==
    {<<ONE, ONE>>,
     <<(3 * ONE) \div 2, -(ONE \div 4)>>,
     <<-ONE, 2 * ONE>>,
     <<ONE \div 2, -2 * ONE>>}

NoCall == [op |-> "new"]
NoRet == [amps |-> <<>>, emitted |-> <<>>, after |-> <<>>, gated |-> <<>>, panic |-> FALSE]
NoVoiceRet == [out_l |-> <<>>, out_r |-> <<>>, added |-> <<>>, envelope_values |-> <<>>,
               slewed |-> <<>>, worked |-> FALSE, panic |-> FALSE]
NoPluginRet == [buf_l |-> <<>>, buf_r |-> <<>>, handled |-> <<>>, gated |-> <<>>,
                slewed |-> <<>>, panic |-> FALSE]

\* the voice after AdditiveVoice::default()
NewVoice ==
    /\ voice = DefaultVoice
    /\ v_call = [call |-> NoCall, before |-> DefaultVoice]
    /\ v_ret = NoVoiceRet

\* the plugin after AthenicDemodulator::default()
NewPlugin ==
    /\ plugin = DefaultPlugin
    /\ p_call = NoCall
    /\ p_ret = NoPluginRet

\* the demodulator after CVDemodulator::default()
NewDemod ==
    /\ demod = DefaultDemod
    /\ d_call = NoCall
    /\ d_ret = NoRet

InitDemod ==
    /\ driving = "demod"
    /\ NewDemod
    /\ d_params \in DemodParams
    /\ NewVoice
    /\ NewPlugin
    /\ steps = 0

DoDemodReset ==
    /\ driving = "demod"
    /\ steps < MaxDemodCalls
    /\ demod' = DemodReset(demod)
    /\ d_call' = [op |-> "reset"]
    /\ d_ret' = NoRet
    /\ steps' = steps + 1
    /\ UNCHANGED <<driving, d_params, v_vars, p_vars>>

\* submit_samples(in_l, in_r, ..) has returned res
Submitted(in_l, in_r, res) ==
    /\ demod' = res.d
    /\ d_call' = [op |-> "submit_samples", in_l |-> in_l, in_r |-> in_r]
    /\ d_ret' = [amps |-> res.amps, emitted |-> res.emitted, after |-> res.after,
                 gated |-> res.gated, panic |-> res.panic]

DoSubmitSamples ==
    /\ driving = "demod"
    /\ steps < MaxDemodCalls
    /\ \E n \in ChunkLenPairs, v \in SamplePairs :
          Submitted(ConstSeq(n[1], v[1]), ConstSeq(n[2], v[2]),
                    SubmitSamples(demod, ConstSeq(n[1], v[1]), ConstSeq(n[2], v[2]),
                                  d_params))
    /\ steps' = steps + 1
    /\ UNCHANGED <<driving, d_params, v_vars, p_vars>>

NextDemod == DoDemodReset \/ DoSubmitSamples

SpecDemod == InitDemod /\ [][NextDemod]_vars

\* ------------------------------------------------------- the voice's callers
\* the sample rate of the host, in Hz
SampleRate == 110

\* MIDI notes: 13.75 Hz (below the audio range) and 27.5 Hz
Notes == {9, 21}

\* pitch-bend values: beyond the top of the range, clamped to +12 semitones
BendValues == {2 * ONE}

\* attack and release times in ms
EnvelopeTimes == {<<5, 5>>}

\* the amplitudes handed to submit_amplitudes: positive at the odd harmonics,
\* negative at the even ones; the second set is too short
AmplitudeSets ==
    {[h \in Harmonics |-> IF h % 2 = 1 THEN ONE \div h ELSE -(ONE \div h)], <<ONE>>}

\* the calls of process: lengths of out_l and out_r, gain mode, slew flag
ProcessCalls ==
    {<<0, 0, "Flat", TRUE>>,
     <<3, 3, "Sawtooth", FALSE>>,
     <<VOICE_BLOCK_SIZE + 1, VOICE_BLOCK_SIZE + 1, "Flat", TRUE>>,
     <<1, 2, "Flat", FALSE>>}

\* what the caller's output buffers hold before process
BufferFill == ONE \div 10

InitVoice ==
    /\ driving = "voice"
    /\ NewDemod
    /\ d_params = DemodParam("Linear", MAX_HARMONICS, 0, GateA)
    /\ NewVoice
    /\ NewPlugin
    /\ steps = 0

VoiceOp(v, call, ret) ==
    /\ driving = "voice"
    /\ steps < MaxVoiceOps
    /\ voice' = v
    /\ v_call' = [call |-> call, before |-> voice]
    /\ v_ret' = ret
    /\ steps' = steps + 1
    /\ UNCHANGED <<driving, d_vars, p_vars>>

DoNoteOn ==
    \E note \in Notes :
        VoiceOp(NoteOn(voice, note), [op |-> "note_on", note |-> note], NoVoiceRet)

DoNoteOff == VoiceOp(NoteOff(voice), [op |-> "note_off"], NoVoiceRet)

DoMidiPitchBend ==
    \E value \in BendValues :
        VoiceOp(MidiPitchBend(voice, value), [op |-> "midi_pitch_bend", value |-> value],
                NoVoiceRet)

DoVoiceReset == VoiceOp(VoiceReset(voice), [op |-> "reset"], NoVoiceRet)

\* voice.envelope.set_attack_time and set_release_time, as before every block
DoSetEnvelopeTimes ==
    \E t \in EnvelopeTimes :
        VoiceOp([voice EXCEPT !.envelope =
                    SetReleaseTime(SetAttackTime(@, SampleRate, t[1]), SampleRate, t[2])],
                [op |-> "set_times", attack_ms |-> t[1], release_ms |-> t[2]],
                NoVoiceRet)

\* the voice operation whose outcome is res
VoiceDone(call, res) ==
    VoiceOp(res.voice, call,
            [out_l |-> res.out_l, out_r |-> res.out_r, added |-> res.added,
             envelope_values |-> res.envelope_values, slewed |-> res.slewed,
             worked |-> res.worked, panic |-> res.panic])

\* voice.engine.submit_amplitudes
DoSubmitAmplitudes ==
    \E a \in AmplitudeSets :
        LET res == SubmitAmplitudes(voice.engine, a, a)
        IN  VoiceOp([voice EXCEPT !.engine = res.engine],
                    [op |-> "submit_amplitudes", amp |-> a],
                    [NoVoiceRet EXCEPT !.panic = res.panic])

DoVoiceProcess ==
    \E c \in ProcessCalls :
        VoiceDone([op |-> "process",
                   out_l |-> ConstSeq(c[1], BufferFill),
                   out_r |-> ConstSeq(c[2], -BufferFill),
                   basic_gain_mode |-> c[3], slew_limiting |-> c[4]],
                  VoiceProcess(voice, SampleRate, ConstSeq(c[1], BufferFill),
                               ConstSeq(c[2], -BufferFill), c[3], c[4]))

\* the calls of generate_samples on the voice's engine: lengths of out_l and
\* out_r, gain mode
GenerateCalls == {<<2, 2, "Sawtooth">>, <<2, 1, "Flat">>}

\* generate_samples has returned g
Generated(call, g) ==
    VoiceDone(call,
              [voice |-> [voice EXCEPT !.engine = g.engine],
               out_l |-> g.out_l, out_r |-> g.out_r, added |-> g.added,
               envelope_values |-> <<>>, slewed |-> g.slewed,
               worked |-> TRUE, panic |-> g.panic])

\* voice.engine.generate_samples, with the frequencies of the voice's note
DoGenerateSamples ==
    \E c \in GenerateCalls :
        Generated([op |-> "generate_samples",
                   out_l |-> ConstSeq(c[1], BufferFill),
                   out_r |-> ConstSeq(c[2], -BufferFill),
                   basic_gain_mode |-> c[3]],
                  GenerateSamples(voice.engine, Forced(HarmonicFrequencies(voice)),
                                  SampleRate, ConstSeq(c[1], BufferFill),
                                  ConstSeq(c[2], -BufferFill), c[3]))

NextVoice ==
    \/ DoNoteOn
    \/ DoNoteOff
    \/ DoMidiPitchBend
    \/ DoVoiceReset
    \/ DoSetEnvelopeTimes
    \/ DoSubmitAmplitudes
    \/ DoGenerateSamples
    \/ DoVoiceProcess

SpecVoice == InitVoice /\ [][NextVoice]_vars

\* the operations of AdditiveVoice alone: note_on, note_off, midi_pitch_bend,
\* reset and process, with the amplitudes and the envelope times that the
\* owner of the voice sets through its public fields; nothing else reaches
\* into the engine
NextNotes ==
    \/ DoNoteOn
    \/ DoNoteOff
    \/ DoMidiPitchBend
    \/ DoVoiceReset
    \/ DoSetEnvelopeTimes
    \/ DoSubmitAmplitudes
    \/ DoVoiceProcess

SpecNotes == InitVoice /\ [][NextNotes]_vars

\* the lengths of the buffers the host renders a release into
RenderLens == {1, VOICE_BLOCK_SIZE + 1}

\* the render call whose outcome is res
Rendered(call, res) ==
    /\ voice' = res.voice
    /\ v_call' = [call |-> call, before |-> voice]
    /\ v_ret' = [out_l |-> res.out_l, out_r |-> res.out_r, added |-> res.added,
                 envelope_values |-> res.envelope_values, slewed |-> res.slewed,
                 worked |-> res.worked, panic |-> res.panic]

\* the host can call its render callback: the operations above are over and
\* no note is held
RenderGuard == driving = "voice" /\ steps = MaxVoiceOps /\ voice.notes_on = 0

\* the host's render callback: process on buffers that hold samples, again
\* and again
DoRender ==
    /\ RenderGuard
    /\ \E n \in RenderLens :
          Rendered([op |-> "process", out_l |-> ConstSeq(n, 0), out_r |-> ConstSeq(n, 0),
                    basic_gain_mode |-> "Flat", slew_limiting |-> TRUE],
                   VoiceProcess(voice, SampleRate, ConstSeq(n, 0), ConstSeq(n, 0),
                                "Flat", TRUE))
    /\ UNCHANGED <<driving, d_vars, p_vars, steps>>

NextRelease == NextVoice \/ DoRender

\* weak fairness of the render callback, WF_vars(DoRender), with
\* ENABLED <<DoRender>>_vars written out: the callback can change the state
\* whenever RenderGuard holds, since the buffer lengths of RenderLens give
\* different call records
RenderIsFair == []<>~RenderGuard \/ []<><<DoRender>>_vars

\* the voice with a host that keeps rendering: the audio callback is called
\* for every buffer as long as the plugin runs
SpecRelease == InitVoice /\ [][NextRelease]_vars /\ RenderIsFair

\* ------------------------------------------------------- the plugin's host
\* the parameter snapshots of the plugin's behaviours
PluginParams ==
    {DemodParam("Linear", MAX_HARMONICS, 0, GateB),
     DemodParam("Linear", 1, 0, GateA),
     DemodParam("Exponential", MAX_HARMONICS, 1, GateA)}

On(note, timing) == [kind |-> "NoteOn", timing |-> timing, note |-> note]
Off(timing) == [kind |-> "NoteOff", timing |-> timing]
Bend(value, timing) == [kind |-> "MidiPitchBend", timing |-> timing, value |-> value]
Pressure(timing) == [kind |-> "PolyPressure", timing |-> timing]

\* the calls of process: the buffer's length, its (left, right) sample values
\* and the note events of the buffer in the order next_event returns them
PluginCalls ==
    {<<0, <<ONE, ONE>>, <<>>>>,
     <<3, <<(3 * ONE) \div 2, -(ONE \div 4)>>, <<On(21, 0)>>>>,
     <<3, <<ONE, ONE>>, <<On(9, 1), On(21, 1)>>>>,
     <<3, <<-ONE, 2 * ONE>>, <<Off(1)>>>>,
     <<3, <<ONE \div 2, -2 * ONE>>, <<Bend(2 * ONE, 2), Off(0), Pressure(2), On(21, 5)>>>>,
     <<BLOCK_SIZE + 1, <<ONE, ONE>>, <<>>>>,
     <<ENVELOPE_VALUES + 1, <<ONE \div 2, ONE \div 2>>, <<On(21, 0)>>>>}

InitPlugin ==
    /\ driving = "plugin"
    /\ NewDemod
    /\ d_params \in PluginParams
    /\ NewVoice
    /\ NewPlugin
    /\ steps = 0

PluginOp(pl, call, ret) ==
    /\ driving = "plugin"
    /\ steps < MaxPluginCalls
    /\ ~p_ret.panic
    /\ plugin' = pl
    /\ p_call' = call
    /\ p_ret' = ret
    /\ steps' = steps + 1
    /\ UNCHANGED <<driving, d_vars, v_vars>>

DoPluginInitialize ==
    PluginOp(PluginInitialize(plugin, SampleRate),
             [op |-> "initialize", sample_rate |-> SampleRate], NoPluginRet)

DoPluginReset == PluginOp(PluginReset(plugin), [op |-> "reset"], NoPluginRet)

\* process has returned res
PluginDone(call, res) ==
    PluginOp(res.plugin, call,
             [buf_l |-> res.buf_l, buf_r |-> res.buf_r, handled |-> res.handled,
              gated |-> res.gated, slewed |-> res.slewed, panic |-> res.panic])

DoPluginProcess ==
    \E c \in PluginCalls, t \in EnvelopeTimes :
        PluginDone([op |-> "process", buf_l |-> ConstSeq(c[1], c[2][1]),
                    buf_r |-> ConstSeq(c[1], c[2][2]), events |-> c[3]],
                   PluginProcess(plugin, ConstSeq(c[1], c[2][1]), ConstSeq(c[1], c[2][2]),
                                 c[3], d_params, t[1], t[2]))

NextPlugin == DoPluginInitialize \/ DoPluginReset \/ DoPluginProcess

SpecPlugin == InitPlugin /\ [][NextPlugin]_vars

\* ------------------------------------------------------------ all behaviours
Init == InitDemod \/ InitVoice \/ InitPlugin

Next == NextDemod \/ NextVoice \/ NextPlugin

Spec == Init /\ [][Next]_vars

\* ------------------------------------------------------------------ claims
IsSubmit(call, ret) == call.op = "submit_samples" /\ ~ret.panic

AmpsZero(d) == d.working_amp_l = Zeros /\ d.working_amp_r = Zeros

\* the last voice operation was op
VoiceDid(op) == v_call.call.op = op

\* C1: process on a voice with notes_on = 0 whose envelope is not releasing
\* (flag unset, or state below 0.001) is a no-op: the voice, its envelope and
\* its oscillator bank are unchanged and so are out_l and out_r, whatever the
\* buffers' lengths.
C1_ProcessIdleIsNoOp ==
    (/\ VoiceDid("process")
     /\ v_call.before.notes_on = 0
     /\ (~v_call.before.envelope.releasing \/ v_call.before.envelope.state < ReleaseFloor))
    => /\ voice = v_call.before
       /\ v_ret.out_l = v_call.call.out_l
       /\ v_ret.out_r = v_call.call.out_r
       /\ ~v_ret.panic

\* C1 witness: process left alone a voice whose release flag is set with the
\* state below 0.001, whose phases have moved and whose buffers differ in length
C1_Witness ==
    /\ VoiceDid("process")
    /\ voice.notes_on = 0
    /\ voice.envelope.releasing
    /\ voice.envelope.state < ReleaseFloor
    /\ voice = v_call.before
    /\ Len(v_call.call.out_l) # Len(v_call.call.out_r)
    /\ v_ret.out_l = v_call.call.out_l
    /\ voice.engine.amp_l # Zeros

\* what the claim C2 says of a note-on: before and after are records with
\* notes_on, current_midi_note and envelope
NoteOnIsLegato(before, after, note) ==
    /\ after.notes_on = before.notes_on + 1
    /\ after.current_midi_note = note
    /\ before.notes_on = 0
       => after.envelope.state = 0 /\ ~after.envelope.releasing
    /\ before.notes_on > 0
       => /\ after.envelope.state = before.envelope.state
          /\ after.envelope.releasing = before.envelope.releasing

\* C2: a note-on increments notes_on and stores the note; it resets the
\* envelope only when notes_on was 0, and leaves the envelope's state and
\* releasing flag unchanged when notes_on was above 0; in the voice and in
\* the render loop of the plugin.
C2_NoteOnResetsEnvelopeOnlyFromZero ==
    /\ VoiceDid("note_on") => NoteOnIsLegato(v_call.before, voice, v_call.call.note)
    /\ \A i \in 1..Len(p_ret.handled) :
          p_ret.handled[i].event.kind = "NoteOn"
          => NoteOnIsLegato(p_ret.handled[i].before, p_ret.handled[i].after,
                            p_ret.handled[i].event.note)

\* what the claim C3 says of a note-off
NoteOffReleasesOnlyFromOne(before, after) ==
    /\ after.notes_on = IF before.notes_on = 0 THEN 0 ELSE before.notes_on - 1
    /\ before.notes_on = 1 => after.envelope.releasing
    /\ before.notes_on # 1 => after.envelope.releasing = before.envelope.releasing

\* C3: a note-off decrements notes_on, saturating at 0; it sets the
\* envelope's releasing flag only when it takes notes_on from 1 to 0, and a
\* note-off at notes_on = 0 leaves the flag unchanged; in the voice and in the
\* render loop of the plugin.
C3_NoteOffReleasesOnlyFromOne ==
    /\ VoiceDid("note_off") => NoteOffReleasesOnlyFromOne(v_call.before, voice)
    /\ \A i \in 1..Len(p_ret.handled) :
          p_ret.handled[i].event.kind = "NoteOff"
          => NoteOffReleasesOnlyFromOne(p_ret.handled[i].before, p_ret.handled[i].after)

\* C4: a process call that did work and returns with notes_on = 0 and the
\* envelope not releasing leaves every phase at MAX_HARMONICS / (i + 1) and
\* every last_amp_l, last_amp_r at 0; note_on, note_off and midi_pitch_bend
\* leave the phases unchanged.
C4_SilentVoiceIsRewound ==
    /\ (/\ VoiceDid("process")
        /\ v_ret.worked
        /\ ~v_ret.panic
        /\ voice.notes_on = 0
        /\ ~IsReleasing(voice.envelope))
       => /\ \A h \in Harmonics : voice.engine.phases[h] = (MAX_HARMONICS * ONE) \div h
          /\ voice.engine.last_amp_l = Zeros
          /\ voice.engine.last_amp_r = Zeros
    /\ (VoiceDid("note_on") \/ VoiceDid("note_off") \/ VoiceDid("midi_pitch_bend"))
       => voice.engine.phases = v_call.before.engine.phases

\* C4 witness: a sounding voice with moved phases and a non-zero slew state
\* was released, and the process call that ended the release rewound it
C4_Witness ==
    /\ VoiceDid("process")
    /\ v_ret.worked
    /\ ~v_ret.panic
    /\ voice.notes_on = 0
    /\ ~IsReleasing(voice.envelope)
    /\ v_call.before.engine.phases # StaggeredPhases
    /\ v_call.before.engine.last_amp_l # Zeros
    /\ voice.engine.phases = StaggeredPhases
    /\ voice.engine.last_amp_l = Zeros

\* C5: a submit_samples call returns a snapshot iff a block completes during
\* the call, that is iff the progress before the call plus the number of
\* samples reaches DEMOD_BLOCK_SIZE; the value returned is the snapshot of the
\* last block completed in the call; each completion leaves the working arrays
\* zero, progress 0 and prev_harmonic 1.
C5_SnapshotIffBlockCompletes ==
    [][IsSubmit(d_call', d_ret') =>
        LET n == Len(d_call'.in_l)
            k == (demod.progress + n) \div DEMOD_BLOCK_SIZE
        IN  /\ (d_ret'.amps # <<>>) <=> (k >= 1)
            /\ Len(d_ret'.emitted) = k
            /\ k >= 1 => d_ret'.amps = <<d_ret'.emitted[k]>>
            /\ \A i \in 1..Len(d_ret'.after) :
                  /\ AmpsZero(d_ret'.after[i])
                  /\ d_ret'.after[i].progress = 0
                  /\ d_ret'.after[i].prev_harmonic = 1
            /\ demod'.progress = (demod.progress + n) % DEMOD_BLOCK_SIZE]_vars

\* C5 witness: one call completed two blocks with different snapshots and
\* returned the second
C5_Witness ==
    /\ IsSubmit(d_call, d_ret)
    /\ Len(d_ret.emitted) = 2
    /\ d_ret.emitted[1] # d_ret.emitted[2]
    /\ d_ret.amps = <<d_ret.emitted[2]>>

\* C6: between the demodulator's operations progress < DEMOD_BLOCK_SIZE.
C6_ProgressBelowBlockSize == demod.progress < DEMOD_BLOCK_SIZE

\* C6 witness: a call longer than a block ended one sample before a completion
C6_Witness ==
    /\ IsSubmit(d_call, d_ret)
    /\ d_ret.emitted # <<>>
    /\ demod.progress = DEMOD_BLOCK_SIZE - 1

FedOneBlockOf(v) ==
    /\ steps = 1
    /\ IsSubmit(d_call, d_ret)
    /\ d_call.in_l = ConstSeq(DEMOD_BLOCK_SIZE, v)
    /\ d_call.in_r = ConstSeq(DEMOD_BLOCK_SIZE, v)

InGate(v, p) == v + p.bias >= p.floor /\ v + p.bias <= p.ceiling

\* C8: Linear, harmonic_count 1, offset 0, one block of the in-range constant
\* 1.0 on both channels: the snapshot has harmonic 1 at 1.0 on both channels.
C8_SingleHarmonicSnapshotIsOne ==
    (/\ FedOneBlockOf(ONE)
     /\ InGate(ONE, d_params)
     /\ d_params.bias = 0
     /\ d_params.distribution_mode = "Linear"
     /\ d_params.harmonic_count = 1
     /\ d_params.harmonic_offset = 0)
    => /\ d_ret.amps # <<>>
       /\ d_ret.amps[1].l[1] = ONE
       /\ d_ret.amps[1].r[1] = ONE

\* v^3 * sign(v), the rectified value the claim C9 names
CubeTimesSign(v) == FMul(FMul(v, v), v) * Signum(v)

\* C9: Linear, harmonic_count MAX_HARMONICS, offset 0, one block of a constant
\* whose biased value v is within [floor, ceiling]: the snapshot has harmonic 1
\* at exactly v^3 * sign(v).
C9_ConstantBlockNoDrift ==
    \A v \in {x[1] : x \in SamplePairs} :
        (/\ FedOneBlockOf(v)
         /\ InGate(v, d_params)
         /\ d_params.distribution_mode = "Linear"
         /\ d_params.harmonic_count = MAX_HARMONICS
         /\ d_params.harmonic_offset = 0)
        => /\ d_ret.amps # <<>>
           /\ d_ret.amps[1].l[1] = CubeTimesSign(v + d_params.bias)
           /\ d_ret.amps[1].r[1] = CubeTimesSign(v + d_params.bias)

\* the value the gate is claimed to pass on for the biased sample x
GatedStrictly(x, p) == IF x > p.ceiling \/ x < p.floor THEN 0 ELSE x

\* C10: each biased sample is replaced by 0 iff it is strictly above the
\* ceiling or strictly below the floor, and is passed through unchanged
\* otherwise, also at the floor and at the ceiling; per channel.
C10_GateOnlyStrictlyBeyond ==
    /\ IsSubmit(d_call, d_ret) =>
          /\ Len(d_ret.gated) = Len(d_call.in_l)
          /\ \A i \in 1..Len(d_ret.gated) :
                /\ d_ret.gated[i].l = GatedStrictly(d_call.in_l[i] + d_params.bias, d_params)
                /\ d_ret.gated[i].r = GatedStrictly(d_call.in_r[i] + d_params.bias, d_params)
    /\ p_call.op = "process" =>
          \A i \in 1..Len(p_ret.gated) :
              /\ p_ret.gated[i].l = GatedStrictly(p_call.buf_l[i] + d_params.bias, d_params)
              /\ p_ret.gated[i].r = GatedStrictly(p_call.buf_r[i] + d_params.bias, d_params)

\* C10 witness: the left sample is at the ceiling and the right one at the
\* floor after the bias, and both pass
C10_Witness ==
    /\ IsSubmit(d_call, d_ret)
    /\ d_params.bias # 0
    /\ \E i \in 1..Len(d_ret.gated) :
          /\ d_call.in_l[i] + d_params.bias = d_params.ceiling
          /\ d_call.in_r[i] + d_params.bias = d_params.floor
          /\ d_ret.gated[i].l = d_params.ceiling
          /\ d_ret.gated[i].r = d_params.floor
          /\ d_params.floor # 0

\* the snapshots of a replay on the demodulator d: reset(), then one block and
\* one more sample of the pair v
DemodReplay(d, v, p) ==
    SubmitSamples(DemodReset(d), ConstSeq(DEMOD_BLOCK_SIZE + 1, v[1]),
                  ConstSeq(DEMOD_BLOCK_SIZE + 1, v[2]), p).emitted

\* the replay on the voice, after reset(): the envelope times, the amplitudes,
\* the bend and the note are set again
VoiceReplaySetUp(v, t, note) ==
    NoteOn(MidiPitchBend(
               [v EXCEPT !.envelope = SetReleaseTime(SetAttackTime(@, SampleRate, t[1]),
                                                     SampleRate, t[2]),
                         !.engine = SubmitAmplitudes(@, [h \in Harmonics |-> ONE \div h],
                                                     [h \in Harmonics |-> ONE \div h]).engine],
               ONE \div 2),
           note)

\* the output samples of a replay on the voice v: reset(), the set-up, then
\* process on zeroed buffers of VOICE_BLOCK_SIZE + 1 samples
VoiceReplay(v) ==
    LET res == VoiceProcess(VoiceReplaySetUp(VoiceReset(v), <<5, 5>>, 21), SampleRate,
                            ConstSeq(VOICE_BLOCK_SIZE + 1, 0),
                            ConstSeq(VOICE_BLOCK_SIZE + 1, 0), "Flat", TRUE)
    IN  <<res.out_l, res.out_r>>

\* C11: reset() followed by a replay of the same inputs and operations gives
\* the same outputs from every reachable state as from the freshly built one:
\* the same snapshots from the demodulator, the same samples from the voice.
C11_ResetThenReplayIsTheSame ==
    /\ \A v \in SamplePairs :
          DemodReplay(demod, v, d_params) = DemodReplay(DefaultDemod, v, d_params)
    /\ VoiceReplay(voice) = VoiceReplay(DefaultVoice)

\* every per-sample step freq[i] / sample_rate of the voice v is in [0, 2)
StepsBelowTwo(v) ==
    \A h \in Harmonics :
        /\ HarmonicFrequencies(v)[h] \div SampleRate >= 0
        /\ HarmonicFrequencies(v)[h] \div SampleRate < 2 * ONE

\* C12: with every step in [0, 2), every phase is in [0, 2) after the samples
\* that generate_samples made in a process call, also when the call started
\* from the staggered phases MAX_HARMONICS / (i + 1).
C12_PhasesBelowTwo ==
    (/\ VoiceDid("process")
     /\ v_ret.worked
     /\ ~v_ret.panic
     /\ Len(v_call.call.out_l) > 0
     /\ ~VoiceSilent(voice)
     /\ StepsBelowTwo(v_call.before))
    => \A h \in Harmonics :
          voice.engine.phases[h] >= 0 /\ voice.engine.phases[h] < 2 * ONE

Abs(x) == IF x < 0 THEN -x ELSE x

\* the slew log holds steps of at most 12.5 / sample_rate per harmonic and
\* channel
SlewedWithin(slewed, sample_rate) ==
    \A i \in 1..Len(slewed) : \A h \in Harmonics :
        /\ Abs(slewed[i].to_l[h] - slewed[i].from_l[h]) <= SlewThreshold(sample_rate)
        /\ Abs(slewed[i].to_r[h] - slewed[i].from_r[h]) <= SlewThreshold(sample_rate)

\* C13: the amplitude applied to a harmonic changes by at most
\* 12.5 / sample_rate from one sample to the next, on each channel, whatever
\* the size and the sign of the jump of the target; the first sample of a
\* generate_samples or process call of the voice starts from the amplitudes
\* the call before ended with, whatever submit_amplitudes was given in
\* between; in the oscillator bank of the voice and in the render loop of the
\* plugin.
C13_SlewLimitsEveryStep ==
    /\ (VoiceDid("process") \/ VoiceDid("generate_samples")) =>
          /\ SlewedWithin(v_ret.slewed, SampleRate)
          /\ v_ret.slewed # <<>> =>
                /\ v_ret.slewed[1].from_l = v_call.before.engine.last_amp_l
                /\ v_ret.slewed[1].from_r = v_call.before.engine.last_amp_r
          /\ \A i \in 2..Len(v_ret.slewed) :
                /\ v_ret.slewed[i].from_l = v_ret.slewed[i - 1].to_l
                /\ v_ret.slewed[i].from_r = v_ret.slewed[i - 1].to_r
    /\ p_call.op = "process" => SlewedWithin(p_ret.slewed, plugin.sample_rate)

\* C13 witness: in one process call of the voice, after amplitudes were
\* submitted to a voice that had already sounded, a harmonic with a target
\* further up than the threshold rose by exactly the threshold and one with a
\* target further down fell by exactly the threshold
C13_Witness ==
    /\ VoiceDid("process")
    /\ v_call.before.engine.last_amp_l # Zeros
    /\ \E i \in 1..Len(v_ret.slewed) : \E h, g \in Harmonics :
          /\ voice.engine.amp_l[h] - v_ret.slewed[i].from_l[h] > SlewThreshold(SampleRate)
          /\ v_ret.slewed[i].to_l[h] - v_ret.slewed[i].from_l[h] = SlewThreshold(SampleRate)
          /\ voice.engine.amp_l[g] - v_ret.slewed[i].from_l[g] < -SlewThreshold(SampleRate)
          /\ v_ret.slewed[i].to_l[g] - v_ret.slewed[i].from_l[g] = -SlewThreshold(SampleRate)

\* C14: an operation that is given left and right buffers of different
\* lengths fails with the precondition violation instead of returning, in
\* every state of the voice, the idle one included: generate_samples, process
\* of the voice and submit_samples of the demodulator.
C14_MismatchedBuffersFailFast ==
    /\ ((VoiceDid("process") \/ VoiceDid("generate_samples"))
        /\ Len(v_call.call.out_l) # Len(v_call.call.out_r))
       => v_ret.panic
    /\ (d_call.op = "submit_samples" /\ Len(d_call.in_l) # Len(d_call.in_r))
       => d_ret.panic

\* C15: with the parameters in their ranges, no process call of the plugin
\* raises an error, whatever the note, the bend and the progress: the slice of
\* harmonics rendered for the note is a valid range, also with the fundamental
\* below 20 Hz or harmonics at Nyquist.  (A buffer longer than envelope_values
\* is left aside.)
C15_NoOperationRaises ==
    (p_call.op = "process" /\ Len(p_call.buf_l) <= ENVELOPE_VALUES) => ~p_ret.panic

\* C16: every NoteOn the render loop handles, with or without a note already
\* held, leaves the analysis at working_progress = 0 and
\* prev_working_harmonic = 1, and the sample of the event is analysed from
\* there.
C16_NoteOnRestartsAnalysis ==
    \A i \in 1..Len(p_ret.handled) :
        p_ret.handled[i].event.kind = "NoteOn"
        => /\ p_ret.handled[i].after.engine.working_progress = 0
           /\ p_ret.handled[i].after.engine.prev_working_harmonic = 1

\* C16 witness: a NoteOn arrived with a note held, in the middle of a block
\* and with the analysis beyond harmonic 1, and restarted the analysis
C16_Witness ==
    \E i \in 1..Len(p_ret.handled) :
        /\ p_ret.handled[i].event.kind = "NoteOn"
        /\ p_ret.handled[i].before.notes_on > 0
        /\ p_ret.handled[i].before.engine.working_progress > 0
        /\ p_ret.handled[i].before.engine.prev_working_harmonic > 1
        /\ p_ret.handled[i].after.engine.working_progress = 0
        /\ p_ret.handled[i].after.engine.prev_working_harmonic = 1

\* the values next_block wrote from the envelope e move toward e's target and
\* stay within [0, 1]: from e.state up to at most 1 while attacking, down to
\* at least 0 while releasing
TowardTarget(e, values) ==
    \A i \in 1..Len(values) :
        LET prev == IF i = 1 THEN e.state ELSE values[i - 1]
        IN  /\ values[i] >= 0
            /\ values[i] <= ONE
            /\ ~e.releasing => values[i] >= prev
            /\ e.releasing => values[i] <= prev

CoeffsInUnit(e) ==
    /\ e.attack_coeff >= 0 /\ e.attack_coeff <= ONE
    /\ e.release_coeff >= 0 /\ e.release_coeff <= ONE

\* C17: with the coefficients in [0, 1] the envelope's state is in [0, 1]
\* after every operation; the values of next_block do not decrease and do not
\* pass 1 while attacking, do not increase and do not pass 0 while releasing,
\* and the state ends at the last of them; start_release, reached by the
\* note-off, sets the releasing flag and leaves the state as it was.
C17_EnvelopeMovesTowardTarget ==
    /\ CoeffsInUnit(voice.envelope) /\ CoeffsInUnit(plugin.envelope)
    /\ voice.envelope.state >= 0 /\ voice.envelope.state <= ONE
    /\ plugin.envelope.state >= 0 /\ plugin.envelope.state <= ONE
    /\ (VoiceDid("process") /\ v_ret.worked /\ ~v_ret.panic) =>
          /\ TowardTarget(v_call.before.envelope, v_ret.envelope_values)
          /\ Len(v_ret.envelope_values) = Len(v_call.call.out_l)
          /\ v_ret.envelope_values # <<>> =>
                voice.envelope.state = v_ret.envelope_values[Len(v_ret.envelope_values)]
    /\ VoiceDid("note_off") =>
          /\ voice.envelope.state = v_call.before.envelope.state
          /\ voice.envelope.attack_coeff = v_call.before.envelope.attack_coeff
          /\ voice.envelope.release_coeff = v_call.before.envelope.release_coeff
          /\ voice.notes_on = 0 => voice.envelope.releasing
    /\ \A i \in 1..Len(p_ret.handled) :
          p_ret.handled[i].event.kind = "NoteOff"
          => p_ret.handled[i].after.envelope.state = p_ret.handled[i].before.envelope.state

\* C17 witness: a process call on a releasing voice wrote strictly falling
\* values that are still above 0, from a state the attack had raised
C17_Witness ==
    /\ VoiceDid("process")
    /\ v_ret.worked
    /\ v_call.before.envelope.releasing
    /\ v_call.before.envelope.release_coeff > 0
    /\ Len(v_ret.envelope_values) >= 2
    /\ v_ret.envelope_values[1] < v_call.before.envelope.state
    /\ v_ret.envelope_values[2] < v_ret.envelope_values[1]
    /\ v_ret.envelope_values[2] > 0

\* the buffer after is the buffer before with the logged contributions added
\* to it, sample by sample
OnlyAdded(before_l, before_r, after_l, after_r, added) ==
    /\ Len(after_l) = Len(before_l)
    /\ Len(after_r) = Len(before_r)
    /\ Len(added) = Len(before_l)
    /\ \A n \in 1..Len(added) :
          /\ after_l[n] = before_l[n] + added[n].l
          /\ after_r[n] = before_r[n] + added[n].r

\* C18: after generate_samples and after a process call of the voice that
\* did work, every sample of out_l and out_r is its value before the call plus
\* what the call generated for it (samp_l, samp_r of generate_samples; the
\* sub-block's sample times the envelope value in process).
C18_OutputIsAccumulated ==
    ((VoiceDid("process") \/ VoiceDid("generate_samples")) /\ v_ret.worked /\ ~v_ret.panic)
    => OnlyAdded(v_call.call.out_l, v_call.call.out_r, v_ret.out_l, v_ret.out_r,
                 v_ret.added)

\* C18 witness: a process call over more than one sub-block added a non-zero
\* contribution to buffers that held non-zero samples
C18_Witness ==
    /\ VoiceDid("process")
    /\ v_ret.worked
    /\ ~v_ret.panic
    /\ Len(v_ret.added) > VOICE_BLOCK_SIZE
    /\ \E n \in 1..Len(v_ret.added) :
          /\ n > VOICE_BLOCK_SIZE
          /\ v_ret.added[n].l # 0
          /\ v_call.call.out_l[n] # 0
          /\ v_ret.out_l[n] # v_ret.added[n].l
          /\ v_ret.out_l[n] = v_call.call.out_l[n] + v_ret.added[n].l

\* the voice v is in its release: no note held, releasing set, state >= 0.001
InRelease(v) ==
    /\ v.notes_on = 0
    /\ v.envelope.releasing
    /\ v.envelope.state >= ReleaseFloor
    /\ v.envelope.release_coeff < ONE

\* what C19 says of one process call
ReleaseIsRendered ==
    (VoiceDid("process") /\ Len(v_call.call.out_l) = Len(v_call.call.out_r)) =>
        /\ v_ret.worked <=>
              \/ v_call.before.notes_on > 0
              \/ (v_call.before.envelope.releasing
                  /\ v_call.before.envelope.state >= ReleaseFloor)
        /\ InRelease(v_call.before) =>
              /\ v_ret.worked
              /\ Len(v_ret.envelope_values) = Len(v_call.call.out_l)
              /\ Len(v_ret.added) = Len(v_call.call.out_l)
              /\ Len(v_call.call.out_l) > 0 =>
                    voice.envelope.state < v_call.before.envelope.state
        /\ (v_call.before.notes_on = 0 /\ ~InRelease(v_call.before)) =>
              /\ voice = v_call.before
              /\ v_ret.out_l = v_call.call.out_l
              /\ v_ret.out_r = v_call.call.out_r

\* a voice in its release that the host keeps rendering becomes idle
ReleaseEnds == (steps = MaxVoiceOps /\ InRelease(voice)) ~> VoiceIdle(voice)

\* C19: a process call on a voice in its release (no note held, releasing
\* set, state >= 0.001, release coefficient below 1) does its work: it advances
\* the envelope by one value per sample and adds a sample per sample; a
\* process call does its work exactly when a note is held or releasing is set
\* with state >= 0.001; and a voice in its release whose host keeps calling
\* process on buffers that hold samples, with no further note-on, becomes
\* idle, after which process leaves the voice and the buffers as they are.
C19_ReleaseEndsIdle ==
    /\ []ReleaseIsRendered
    /\ ReleaseEnds

\* C19 witness: the host's call ended a release that an earlier call had left
\* unfinished: the voice went from releasing above 0.001 to idle
C19_Witness ==
    /\ steps = MaxVoiceOps
    /\ VoiceDid("process")
    /\ InRelease(v_call.before)
    /\ v_call.before.envelope.state < ONE \div 2
    /\ v_call.before.envelope.release_coeff > 0
    /\ v_ret.worked
    /\ v_ret.envelope_values[1] > 0
    /\ VoiceIdle(voice)

\* the accumulator the claim C20 gives harmonic h after one sample of
\* rectified value value: d is the demodulator before the sample, first the
\* first harmonic of the sample's range
AccumulatorRule(acc, d, h, first, value) ==
    IF h = first /\ h = d.prev_harmonic
    THEN FDivInt(acc[h] * d.sample_count + value, d.sample_count + 1)
    ELSE value

\* the sample_count the claim C20 gives after one sample over first..last
SampleCountRule(d, first, last) ==
    IF last < first THEN d.sample_count
    ELSE IF last = first /\ first = d.prev_harmonic THEN d.sample_count + 1
    ELSE 0

\* C20: a submit_samples call of one sample leaves, for every harmonic of the
\* sample's range, the rectified value at a harmonic visited for the first
\* time, with sample_count 0, and (acc * sample_count + value) /
\* (sample_count + 1) at a harmonic visited again, sample_count being the count
\* before the visit, which the visit then increments.
C20_RepeatVisitAverages ==
    [][(IsSubmit(d_call', d_ret') /\ Len(d_call'.in_l) = 1) =>
        LET first == Max(Max(demod.prev_harmonic, d_params.harmonic_offset), 1)
            last  == Min(NextHarmonic(d_params, demod.progress), MAX_HARMONICS)
            now_l == IF d_ret'.emitted # <<>> THEN d_ret'.emitted[1].l
                     ELSE demod'.working_amp_l
            now_r == IF d_ret'.emitted # <<>> THEN d_ret'.emitted[1].r
                     ELSE demod'.working_amp_r
        IN  /\ \A h \in first..last :
                  /\ now_l[h] = AccumulatorRule(demod.working_amp_l, demod, h, first,
                                                Rectify(d_ret'.gated[1].l))
                  /\ now_r[h] = AccumulatorRule(demod.working_amp_r, demod, h, first,
                                                Rectify(d_ret'.gated[1].r))
            /\ demod'.sample_count = SampleCountRule(demod, first, last)]_vars

\* the phase after n samples of step each
RECURSIVE Advanced(_, _, _)
Advanced(phase, step, n) ==
    IF n = 0 THEN phase ELSE Advanced(AdvancePhase(phase, step), step, n - 1)

\* generate_samples advanced the phase of every harmonic by freq / sample_rate
\* for each sample, in the audio range or not
PhasesAdvanced ==
    \A h \in Harmonics :
        voice.engine.phases[h]
            = Advanced(v_call.before.engine.phases[h],
                       HarmonicFrequencies(v_call.before)[h] \div SampleRate,
                       Len(v_call.call.out_l))

\* generate_samples moved last_amp of harmonic h toward its target on
\* every sample
LastAmpUpdated(h) ==
    \A k \in 1..Len(v_ret.slewed) :
        /\ v_ret.slewed[k].to_l[h]
              = Slew(v_call.before.engine.amp_l[h], v_ret.slewed[k].from_l[h], SampleRate)
        /\ v_ret.slewed[k].to_r[h]
              = Slew(v_call.before.engine.amp_r[h], v_ret.slewed[k].from_r[h], SampleRate)

\* C21: generate_samples updates the state of every harmonic on every sample:
\* a harmonic outside [20 Hz, sample_rate / 2] adds nothing to the output, its
\* phase advances by freq / sample_rate as for a harmonic in the range, and
\* last_amp of every harmonic moves toward its target on every sample,
\* in the range or not
C21_EveryHarmonicUpdated ==
    (VoiceDid("generate_samples") /\ ~v_ret.panic) =>
        /\ PhasesAdvanced
        /\ \A h \in Harmonics : LastAmpUpdated(h)

\* the events of the last render call come in timestamp order
EventsSorted ==
    \A i, j \in 1..Len(p_call.events) :
        i < j => p_call.events[i].timing <= p_call.events[j].timing

\* the events of the last render call whose timestamp lies inside the buffer
EventsInside ==
    SelectSeq(p_call.events, LAMBDA e : e.timing < Len(p_call.buf_l))

\* the k-th handled event is the last one handled at its sample offset
LastAtOffset(k) ==
    \A j \in (k + 1)..Len(p_ret.handled) :
        p_ret.handled[j].event.timing # p_ret.handled[k].event.timing

\* the envelope value used at the sample of offset t (0-based)
EnvelopeUsed(t) == plugin.envelope_values[t + 1]

\* the envelope values used from the offset of the k-th handled event on show
\* the event: a NoteOn restarts the attack from 0 at its sample, a NoteOff
\* that releases the last note makes the envelope fall from its sample on
EnvelopeShowsEvent(k) ==
    LET h == p_ret.handled[k]
        t == h.event.timing
    IN  /\ h.event.kind = "NoteOn" =>
              EnvelopeUsed(t) = EnvNext(EnvReset(h.before.envelope)).state
        /\ (h.event.kind = "NoteOff" /\ h.after.envelope.releasing /\ t > 0) =>
              EnvelopeUsed(t) <= EnvelopeUsed(t - 1)

\* C22: within one render call every note-on, note-off and pitch-bend event
\* whose timestamp lies inside the buffer is applied exactly once, in
\* timestamp order, before the sample at its offset is processed, and its
\* effect on the output, the envelope value used from that sample on
\* included, starts at that sample offset and not at the next render call
C22_EventsAreSampleAccurate ==
    (p_call.op = "process" /\ ~p_ret.panic /\ EventsSorted) =>
        /\ [k \in 1..Len(p_ret.handled) |-> p_ret.handled[k].event] = EventsInside
        /\ \A k \in 1..Len(p_ret.handled) :
              LastAtOffset(k) => EnvelopeShowsEvent(k)

\* the engine is as good as new: slew state zero, phases staggered
EngineRewound(eng) ==
    /\ eng.last_amp_l = Zeros
    /\ eng.last_amp_r = Zeros
    /\ eng.phases = StaggeredPhases

\* C23: whenever the voice is silent (notes_on = 0 and the envelope not
\* releasing), after any sequence of note_on, note_off, midi_pitch_bend, reset
\* and process, the slew state is all zero and the phases are the staggered
\* pattern MAX_HARMONICS / (i + 1)
C23_SilentVoiceIsClean == VoiceSilent(voice) => EngineRewound(voice.engine)

\* C24: in every state of the voice reached by note_on, note_off,
\* midi_pitch_bend, reset and process the envelope's releasing flag is set
\* only if notes_on = 0: while a note is held the envelope attacks toward 1
C24_ReleasingOnlyWithoutNotes == voice.envelope.releasing => voice.notes_on = 0

\* C24 witness: a note-on on a voice whose envelope was releasing, the flag
\* set by the note-off that took notes_on to 0, has cleared the flag
C24_Witness ==
    /\ VoiceDid("note_on")
    /\ v_call.before.notes_on = 0
    /\ v_call.before.envelope.releasing
    /\ IsReleasing(v_call.before.envelope)
    /\ voice.notes_on = 1
    /\ ~voice.envelope.releasing

\* the call (in_l, in_r) feeds the same samples to its first and to its
\* second block
SameTwoBlocks(call) ==
    /\ Len(call.in_l) >= 2 * DEMOD_BLOCK_SIZE
    /\ \A n \in 1..DEMOD_BLOCK_SIZE :
          /\ call.in_l[n] = call.in_l[n + DEMOD_BLOCK_SIZE]
          /\ call.in_r[n] = call.in_r[n + DEMOD_BLOCK_SIZE]

\* C25: a snapshot depends only on the samples and parameters of its own
\* block: two consecutive blocks fed the same samples with the same parameters
\* and no reset between them emit the same snapshot, in one call or in two,
\* and a block completion leaves nothing of the block in the demodulator,
\* which is then as CVDemodulator::default() makes it
C25_SnapshotOfOwnBlockOnly ==
    [][IsSubmit(d_call', d_ret') =>
        /\ (demod.progress = 0 /\ SameTwoBlocks(d_call'))
           => d_ret'.emitted[1] = d_ret'.emitted[2]
        /\ (/\ IsSubmit(d_call, d_ret)
            /\ d_call' = d_call
            /\ Len(d_call.in_l) = DEMOD_BLOCK_SIZE
            /\ demod.progress = 0)
           => d_ret'.amps = d_ret.amps
        /\ \A i \in 1..Len(d_ret'.after) : d_ret'.after[i] = DefaultDemod]_vars

\* what two consecutive calls return last: the second call's snapshot, or the
\* first call's when the second returns none
LastSnapshot(first, second) == IF second # <<>> THEN second ELSE first

\* the calls first and second, the second made on the demodulator the first
\* left, end as the single call that left the demodulator d and returned amps
SplitAgrees(first, second, d, amps) ==
    /\ ~first.panic
    /\ ~second.panic
    /\ second.d = d
    /\ LastSnapshot(first.amps, second.amps) = amps

\* the call (in_l, in_r) on the demodulator d, split after its k-th sample
SplitSecond(first, in_l, in_r, k) ==
    SubmitSamples(first.d, SubSeq(in_l, k + 1, Len(in_l)),
                  SubSeq(in_r, k + 1, Len(in_r)), d_params)

SplitAt(first, in_l, in_r, k, d, amps) ==
    SplitAgrees(first, SplitSecond(first, in_l, in_r, k), d, amps)

\* C26: with fixed parameters, submitting a sample sequence in one
\* submit_samples call and submitting it split at any point into two
\* consecutive calls leave the demodulator in the same state, and the snapshot
\* the single call returns is the last snapshot the split calls return, none
\* if neither returns one
C26_ChunkingInvariance ==
    [][IsSubmit(d_call', d_ret') =>
        \A k \in 0..Len(d_call'.in_l) :
            SplitAt(SubmitSamples(demod, SubSeq(d_call'.in_l, 1, k),
                                  SubSeq(d_call'.in_r, 1, k), d_params),
                    d_call'.in_l, d_call'.in_r, k, demod', d_ret'.amps)]_vars

\* C26 witness: a call that started inside a block with a running average
\* under way completed two blocks, so that its split points lie before, at and
\* after a block completion
C26_Witness ==
    /\ IsSubmit(d_call, d_ret)
    /\ Len(d_call.in_l) = 2 * DEMOD_BLOCK_SIZE + 1
    /\ Len(d_ret.emitted) = 2
    /\ demod.progress > 1
    /\ demod.sample_count > 0
    /\ d_ret.amps # <<>>

=============================================================================
